---- MODULE Spec2Model ----
(***************************************************************************)
(* A model of the DIS listeners of dis-listener-js.                        *)
(*                                                                         *)
(* The repository holds several entry scripts that share one shape: a UDP  *)
(* socket whose 'message' handler decodes a datagram with the open-dis-js  *)
(* PDU factory, logs the decoded Entity State PDU and, in the proxies,     *)
(* relays the datagram to the clients of a WebSocket server.               *)
(*                                                                         *)
(*   "dis-ws-proxy"      src/dis-ws-proxy.js                               *)
(*   "dis-listener"      src/unnamed/part_000, lines 1-277                 *)
(*   "dis-ws-proxy.old"  src/unnamed/part_000, lines 428-679               *)
(*   "simple-listener"   src/simple-listener.js                            *)
(*                                                                         *)
(* Node runs every handler to completion, so each handler is one action.   *)
(* An exception that leaves a handler is an uncaught exception: no script  *)
(* installs an 'uncaughtException' handler, so the process ends.           *)
(*                                                                         *)
(*   Spec        a script from its command line on: start, the socket's    *)
(*               and the server's events                                   *)
(*   SpecAPLoop  the articulation-parameter loop of handleDIS_ESPDU        *)
(*               applied to any array of records                           *)
(*   SpecConfig  new DISWSProxy(config).start() for any config object      *)
(***************************************************************************)
EXTENDS Integers, Sequences, FiniteSets, TLC

\* ------------------------------------------------------------------ bounds
MaxDatagrams == 2
NumClients == 2
MaxAP == 1
MaxLoopAP == 3

\* ------------------------------------------------------- program constants
MinESPDULength == 144
EntityStatePduType == 1
SupportedVersion == 6
ArticulationRecordLength == 16
LOG_LEVEL_VERBOSE == 0
LOG_LEVEL_INFO == 1
LOG_LEVEL_WARN == 2
LOG_LEVEL_ERROR == 3
EntityIDListType == 1
ArticulatedPartDesignator == 0

VARIABLES
    program,     \* which entry script this process runs
    args,        \* process.argv.slice(2)
    given,       \* the config object passed to the constructor
    config,      \* this.config
    bound,       \* what the UDP socket and the WebSocket server were bound to
    membership,  \* the multicast groups the UDP socket has joined
    pc,          \* "constructed", "running", "crashed"
    socket,      \* this.socket: "none", "binding", "listening", "closed"
    ws,          \* this.ws !== null
    clients,     \* this.ws.clients, a Set: its members in insertion order
    readyState,  \* readyState of each client connection
    received,    \* number of datagrams handed to the 'message' handler
    delivered,   \* per client, the datagrams (by number) written to its connection
    last         \* what the most recent step did

vars == <<program, args, given, config, bound, membership, pc, socket, ws, clients,
          readyState, received, delivered, last>>

Programs == {"dis-ws-proxy", "dis-listener", "dis-ws-proxy.old", "simple-listener"}
Proxies == {"dis-ws-proxy", "dis-ws-proxy.old"}
Clients == 1..NumClients

\* ---------------------------------------------------------------- datagrams
\* PDU types the factory has a case for (Entity State and one other), and one
\* it has none for.
OtherPduType == EntityStatePduType + 1
UnrecognisedPduType == EntityStatePduType - 1
RecognisedPduTypes == {EntityStatePduType, OtherPduType}
PduTypes == RecognisedPduTypes \cup {UnrecognisedPduType}
Versions == {SupportedVersion - 1, SupportedVersion, SupportedVersion + 1}

EntityTypes ==
    { [entityKind |-> "PLATFORM", domain |-> "SURFACE"],
      [entityKind |-> "PLATFORM", domain |-> "SUBSURFACE"],
      [entityKind |-> "PLATFORM", domain |-> "LAND"],
      [entityKind |-> "PLATFORM", domain |-> "AIR"],
      [entityKind |-> "PLATFORM", domain |-> "SPACE"] }
DefaultEntityType == [entityKind |-> "PLATFORM", domain |-> "SURFACE"]

\* Articulation records: parameter type 1 (Entity ID list) with designator 0,
\* the same type with another designator, and a record of another type.
APKinds ==
    { [parameterType |-> EntityIDListType,
       parameterTypeDesignator |-> ArticulatedPartDesignator],
      [parameterType |-> EntityIDListType,
       parameterTypeDesignator |-> ArticulatedPartDesignator + 1],
      [parameterType |-> EntityIDListType - 1,
       parameterTypeDesignator |-> ArticulatedPartDesignator] }
DefaultAP == [parameterType |-> EntityIDListType,
              parameterTypeDesignator |-> ArticulatedPartDesignator]
APSeqs == UNION { [1..n -> APKinds] : n \in 0..MaxAP }

Datagram(seq, len, t, v, n, et, aps) ==
    [seq |-> seq, length |-> len, pduType |-> t, protocolVersion |-> v,
     numAP |-> n, entityType |-> et, aps |-> aps]

NoDatagram == Datagram(0, 0, EntityStatePduType, SupportedVersion, 0,
                       DefaultEntityType, <<>>)

\* The datagrams the network can deliver as number seq: too short ones, PDUs
\* of another or of an unknown type, and Entity State PDUs of any version whose
\* buffer holds the declared articulation records or one record less. The
\* entity type and the articulation records, which only a decoded version-6
\* PDU shows, vary in the complete version-6 PDUs.
ShortDatagrams(seq) ==
    { Datagram(seq, len, EntityStatePduType, v, 0, DefaultEntityType, <<>>) :
        len \in {0, MinESPDULength - 1}, v \in {SupportedVersion} }
ForeignDatagrams(seq) ==
    { Datagram(seq, MinESPDULength, t, v, 0, DefaultEntityType, <<>>) :
        t \in PduTypes \ {EntityStatePduType},
        v \in {SupportedVersion, SupportedVersion + 1} }
EntityStateDatagrams(seq) ==
    { Datagram(seq, MinESPDULength + ArticulationRecordLength * Len(aps),
               EntityStatePduType, v, n, et, aps) :
        v \in Versions, et \in EntityTypes, aps \in APSeqs,
        n \in 0..MaxAP + 1 }
DatagramsNumbered(seq) ==
    ShortDatagrams(seq) \cup ForeignDatagrams(seq)
    \cup { d \in EntityStateDatagrams(seq) :
             /\ d.numAP \in {Len(d.aps), Len(d.aps) + 1}
             /\ d.aps # <<>> => d.entityType = DefaultEntityType
             /\ d.numAP > Len(d.aps) => d.entityType = DefaultEntityType
             /\ d.numAP > Len(d.aps) => \A i \in DOMAIN d.aps : d.aps[i] = DefaultAP
             /\ d.protocolVersion # SupportedVersion => d.aps = <<>> }
\* The same sets, tabulated once.
DatagramTable == [seq \in 1..MaxDatagrams + 1 |-> DatagramsNumbered(seq)]
Datagrams(seq) == DatagramTable[seq]

\* ------------------------------------------- command line and configuration
\* A property an object does not have reads as undefined.
undefined == "undefined"
Get(object, field) == IF field \in DOMAIN object THEN object[field] ELSE undefined
\* object.field ?? default
Coalesce(object, field, default) ==
    IF field \in DOMAIN object THEN object[field] ELSE default
EmptyObject == [field \in {} |-> undefined]
\* array[i]: undefined past the end (i counts from 1 here).
At(array, i) == IF i \in DOMAIN array THEN array[i] ELSE undefined
\* { ...object, field: value }: a property holding undefined reads the same as
\* a property that is not there, so it is left out.
WithProperty(object, field, value) ==
    IF value = undefined THEN object
    ELSE [x \in DOMAIN object \cup {field} |->
            IF x = field THEN value ELSE object[x]]

\* arg.startsWith('-'), over the arguments used here.
Flags == {"-v"}
isFlag(arg) == arg \in Flags
\* parseInt, over the arguments used here.
parseInt(arg) ==
    CASE arg = "62040" -> 62040
      [] arg = "8080" -> 8080
      [] arg = "9000" -> 9000
      [] OTHER -> "NaN"

\* The command lines: address and port, then the optional WebSocket host and
\* port, then -v, in the order the usage text gives. The address is a
\* multicast one (the lowest, the highest, the one of the examples), a unicast
\* one, a broadcast one, or the address next to either end of 224.0.0.0/4.
\* The scripts only count the arguments (two at least), so a command line of
\* flags alone passes too. The older proxy reads args[2] without checking that
\* it is there, so it only starts with three arguments or more;
\* simple-listener reads no argument.
ArgsOf(p) ==
    CASE p = "dis-ws-proxy" ->
           { <<"239.1.2.3", "62040">>,
             <<"239.1.2.3", "62040", "-v">>,
             <<"239.1.2.3", "62040", "0.0.0.0", "9000", "-v">>,
             <<"192.168.1.10", "62040">>,
             <<"-v", "-v">> }
      [] p = "dis-listener" ->
           { <<"239.1.2.3", "62040">>, <<"239.1.2.3", "62040", "-v">>,
             <<"224.0.0.0", "62040">>, <<"239.255.255.255", "62040">>,
             <<"223.255.255.255", "62040">>, <<"240.0.0.0", "62040">>,
             <<"192.168.1.10", "62040">>, <<"255.255.255.255", "62040">>,
             <<"-v", "-v">> }
      [] p = "dis-ws-proxy.old" ->
           { <<"239.1.2.3", "62040", "localhost", "8080">>,
             <<"239.1.2.3", "62040", "-v">> }
      [] OTHER -> { <<>> }

argsf(a) == SelectSeq(a, LAMBDA arg : ~isFlag(arg))
argsp(a) == SelectSeq(a, LAMBDA arg : isFlag(arg))
Includes(a, arg) == \E i \in DOMAIN a : a[i] = arg

\* const VERBOSE = ... of each script.
VERBOSE(p, a) ==
    CASE p = "dis-ws-proxy" -> Includes(argsp(a), "-v")
      [] p = "dis-listener" -> TRUE
      [] p = "dis-ws-proxy.old" -> Includes(a, "-v")
      [] OTHER -> FALSE

\* const UDP_IP = argsf[0] (UDP_MULTICAST_IP = args[0] in the older proxy,
\* MULTICAST_IP in simple-listener): a constant of the script, outside the
\* object.
UDP_IP(p, a) ==
    CASE p \in {"dis-ws-proxy", "dis-listener"} -> At(argsf(a), 1)
      [] p = "dis-ws-proxy.old" -> At(a, 1)
      [] OTHER -> "239.1.2.3"

\* The object each script passes to its constructor.
scriptConfig(p, a) ==
    LET level == IF VERBOSE(p, a) THEN LOG_LEVEL_VERBOSE ELSE LOG_LEVEL_INFO
        f == argsf(a)
    IN  CASE p = "dis-ws-proxy" ->
               WithProperty(
                 [disPort |-> parseInt(At(f, 2)),
                  logLevel |-> level,
                  wsHost |-> IF Len(f) >= 3 THEN f[3] ELSE "localhost",
                  wsPort |-> IF Len(f) >= 4 THEN parseInt(a[4]) ELSE 8080],
                 "disAddress", UDP_IP(p, a))
          [] p = "dis-listener" ->
               WithProperty(
                 [disPort |-> parseInt(At(f, 2)), logLevel |-> level],
                 "disAddress", UDP_IP(p, a))
          [] p = "dis-ws-proxy.old" ->
               [disMulticastAddress |-> a[1],
                disPort |-> parseInt(a[2]),
                logLevel |-> level,
                wsHost |-> IF ~isFlag(a[3]) THEN a[3] ELSE "localhost",
                wsPort |-> IF ~isFlag(a[3]) THEN parseInt(a[4]) ELSE 9870]
          [] OTHER -> EmptyObject

\* setConfig(config) of dis-ws-proxy.js.
setConfig(c) ==
    [disAddress |-> Coalesce(c, "disAddress", "239.1.2.3"),
     disPort |-> Coalesce(c, "disPort", 62040),
     wsHost |-> Coalesce(c, "wsHost", "localhost"),
     wsPort |-> Coalesce(c, "wsPort", 9870),
     wsPath |-> Coalesce(c, "wsPath", "/"),
     logLevel |-> Coalesce(c, "logLevel", LOG_LEVEL_INFO)]

setConfig_listener(c) ==
    [disAddress |-> Coalesce(c, "disAddress", "239.1.2.3"),
     disPort |-> Coalesce(c, "disPort", 62040),
     logLevel |-> Coalesce(c, "logLevel", LOG_LEVEL_INFO)]

setConfig_old(c) ==
    [disMulticastAddress |-> Coalesce(c, "disMulticastAddress", "239.1.2.3"),
     disPort |-> Coalesce(c, "disPort", 62040),
     wsHost |-> Coalesce(c, "wsHost", "localhost"),
     wsPort |-> Coalesce(c, "wsPort", 9870),
     wsPath |-> Coalesce(c, "wsPath", "/"),
     logLevel |-> Coalesce(c, "logLevel", LOG_LEVEL_INFO)]

\* this.config after the constructor; simple-listener has no config object.
constructed(p, c) ==
    CASE p = "dis-ws-proxy" -> setConfig(c)
      [] p = "dis-listener" -> setConfig_listener(c)
      [] p = "dis-ws-proxy.old" -> setConfig_old(c)
      [] OTHER -> EmptyObject

\* An IPv4 address in dotted form as its four numbers, over the addresses used
\* here.
Octets(address) ==
    CASE address = "239.1.2.3" -> <<239, 1, 2, 3>>
      [] address = "224.0.0.0" -> <<224, 0, 0, 0>>
      [] address = "239.255.255.255" -> <<239, 255, 255, 255>>
      [] address = "223.255.255.255" -> <<223, 255, 255, 255>>
      [] address = "240.0.0.0" -> <<240, 0, 0, 0>>
      [] address = "192.168.1.10" -> <<192, 168, 1, 10>>
      [] address = "192.168.1.255" -> <<192, 168, 1, 255>>
      [] address = "255.255.255.255" -> <<255, 255, 255, 255>>
      [] address = "0.0.0.0" -> <<0, 0, 0, 0>>
\* "address/prefix" as its two parts.
Subnet(cidr) ==
    CASE cidr = "224.0.0.0/4" -> [address |-> "224.0.0.0", prefix |-> 4]
OctetBits == 8
\* How many of the prefix bits fall in octet i.
PrefixBitsIn(i, prefix) ==
    LET before == OctetBits * (i - 1)
    IN  IF prefix <= before THEN 0
        ELSE IF prefix >= before + OctetBits THEN OctetBits
        ELSE prefix - before
\* isInSubnet(address, cidr) of is-in-subnet: the leading prefix bits of the
\* address are those of the subnet.
isInSubnet(address, cidr) ==
    LET subnet == Subnet(cidr)
        a == Octets(address)
        n == Octets(subnet.address)
    IN  \A i \in DOMAIN a :
          LET rest == 2 ^ (OctetBits - PrefixBitsIn(i, subnet.prefix))
          IN  a[i] \div rest = n[i] \div rest

\* this.isMulticast, set by setConfig of dis-ws-proxy.js and of dis-listener.
isMulticast == isInSubnet(config.disAddress, "224.0.0.0/4")

\* this.config.logLevel. (simple-listener has no filter: it writes to the
\* console directly.)
logLevel == Coalesce(config, "logLevel", LOG_LEVEL_INFO)

\* socket.bind(port, address): without an address the socket listens on all
\* addresses. The port is kept as it was passed; for one that is not a number
\* (parseInt of a missing argument) the system chooses the port.
bind(port, address) ==
    [port |-> port, address |-> IF address = undefined THEN "0.0.0.0" ELSE address]

\* ------------------------------------------------------------------ logging
LogEntry(level, text, arg) == [level |-> level, text |-> text, arg |-> arg]

\* log(level, ...messages): dropped when level < this.config.logLevel.
log(level, text, arg) ==
    IF level < logLevel THEN <<>> ELSE <<LogEntry(level, text, arg)>>

\* console.log / console.error of the scripts that do not filter by level.
console(level, text, arg) == <<LogEntry(level, text, arg)>>

\* --------------------------------------------------------- what a handler did
Effect(outcome, logs, thrown, factoryCalled, decoded, converted, published, sends) ==
    [outcome |-> outcome, logs |-> logs, thrown |-> thrown,
     factoryCalled |-> factoryCalled, decoded |-> decoded,
     converted |-> converted, published |-> published, sends |-> sends,
     appearance |-> "none"]

NoEffect == Effect("none", <<>>, "none", FALSE, FALSE, FALSE, FALSE, <<>>)

\* ------------------------------------------------------------ the PDU factory
\* The buffer of an Entity State PDU must hold the fixed part and the declared
\* number of articulation records: the factory's input stream reads each field
\* through a DataView, and a read past the end of the buffer throws RangeError.
Truncated(msg) ==
    /\ msg.pduType = EntityStatePduType
    /\ msg.length < MinESPDULength + ArticulationRecordLength * msg.numAP

NoPdu == [pduType |-> UnrecognisedPduType, protocolVersion |-> 0,
          entityType |-> DefaultEntityType, articulationParameters |-> <<>>]

\* this.pduFactory.createPdu(arrayBuf): dispatches on the PDU type byte, throws
\* for a type it has no case for, otherwise reads the PDU from the buffer.
createPdu(msg) ==
    IF msg.pduType \notin RecognisedPduTypes
    THEN [thrown |-> "UnrecognizedPduType", pdu |-> NoPdu]
    ELSE IF Truncated(msg)
    THEN [thrown |-> "RangeError", pdu |-> NoPdu]
    ELSE [thrown |-> "none",
          pdu |-> [pduType |-> msg.pduType,
                   protocolVersion |-> msg.protocolVersion,
                   entityType |-> msg.entityType,
                   articulationParameters |-> SubSeq(msg.aps, 1, msg.numAP)]]

\* ------------------------------------------------------ handleDIS_ESPDU
\* dis-ws-proxy.js: the position is converted and three lines are logged, then
\* line 218 reads orientationConverter, a name the module neither imports nor
\* declares: a ReferenceError, whatever the log level.
handleDIS_ESPDU(espdu) ==
    [logs |-> log(LOG_LEVEL_VERBOSE, "Received Entity State PDU", 0)
              \o log(LOG_LEVEL_VERBOSE, "type", 0)
              \o log(LOG_LEVEL_VERBOSE, "pos", 0),
     appearance |-> "none",
     thrown |-> "ReferenceError"]

\* The appearance class the if / else if of dis-ws-proxy.old and of
\* simple-listener constructs for an entity type, to read entityAppearance
\* with: the surface or the subsurface platform layout, or none at all.
platformAppearance(entityType) ==
    IF entityType.entityKind = "PLATFORM" /\ entityType.domain = "SURFACE"
    THEN "DIS6_SurfacePlatformAppearance"
    ELSE IF entityType.entityKind = "PLATFORM" /\ entityType.domain = "SUBSURFACE"
    THEN "DIS6_SubsurfacePlatformAppearance"
    ELSE "none"

\* dis-ws-proxy.old: position, marking, then the appearance of a surface or
\* subsurface platform.
handleDIS_ESPDU_old(espdu) ==
    [logs |-> log(LOG_LEVEL_VERBOSE, "pos", 0)
              \o log(LOG_LEVEL_VERBOSE, "marking", 0)
              \o (IF /\ espdu.entityType.entityKind = "PLATFORM"
                     /\ espdu.entityType.domain = "SURFACE"
                  THEN log(LOG_LEVEL_VERBOSE, "SurfacePlatformAppearance", 0)
                  ELSE IF /\ espdu.entityType.entityKind = "PLATFORM"
                          /\ espdu.entityType.domain = "SUBSURFACE"
                  THEN log(LOG_LEVEL_VERBOSE, "SubsurfacePlatformAppearance", 0)
                  ELSE <<>>),
     appearance |-> platformAppearance(espdu.entityType),
     thrown |-> "none"]

\* dis-ws-proxy.js, lines 239-259: the loop over the articulation parameters,
\* from the k-th parameter on with the counter at i. The nested Entity ID is
\* decoded for parameter type 1 with designator 0, and i++ is inside that if.
\* (handleDIS_ESPDU, as it stands, throws before it gets here.)
RECURSIVE apLoop(_, _, _)
apLoop(aps, k, i) ==
    IF k > Len(aps) THEN <<>>
    ELSE LET ap == aps[k]
             isEntityID == /\ ap.parameterType = EntityIDListType
                           /\ ap.parameterTypeDesignator = ArticulatedPartDesignator
         IN  log(LOG_LEVEL_VERBOSE, "ap #", i)
             \o log(LOG_LEVEL_VERBOSE, "parameterType", ap.parameterType)
             \o log(LOG_LEVEL_VERBOSE, "parameterTypeDesignator",
                    ap.parameterTypeDesignator)
             \o log(LOG_LEVEL_VERBOSE, "parameterValue", 0)
             \o (IF isEntityID
                 THEN log(LOG_LEVEL_VERBOSE, "parameterValue Entity ID decoded", 0)
                      \o log(LOG_LEVEL_VERBOSE, "site", 0)
                      \o log(LOG_LEVEL_VERBOSE, "application", 0)
                      \o log(LOG_LEVEL_VERBOSE, "entity", 0)
                 ELSE <<>>)
             \o apLoop(aps, k + 1, IF isEntityID THEN i + 1 ELSE i)

\* dis-listener: the loop over the articulation parameters, from index i on.
\* The nested Entity ID is decoded for parameter type 1, whatever the
\* designator.
RECURSIVE apLoop_listener(_, _)
apLoop_listener(aps, i) ==
    IF i >= Len(aps) THEN <<>>
    ELSE LET ap == aps[i + 1] IN
         log(LOG_LEVEL_VERBOSE, "ap #", i)
         \o log(LOG_LEVEL_VERBOSE, "parameterType", ap.parameterType)
         \o log(LOG_LEVEL_VERBOSE, "parameterTypeDesignator", ap.parameterTypeDesignator)
         \o log(LOG_LEVEL_VERBOSE, "parameterValue", 0)
         \o (IF ap.parameterType = EntityIDListType
             THEN log(LOG_LEVEL_VERBOSE, "parameterValue Entity ID decoded", 0)
                  \o log(LOG_LEVEL_VERBOSE, "site", 0)
                  \o log(LOG_LEVEL_VERBOSE, "application", 0)
                  \o log(LOG_LEVEL_VERBOSE, "entity", 0)
             ELSE <<>>)
         \o apLoop_listener(aps, i + 1)

\* The appearance is read with new DIS6_SurfacePlatformAppearance(), whatever
\* the entity type; the damage logged is that layout's.
handleDIS_ESPDU_listener(espdu) ==
    [logs |-> log(LOG_LEVEL_VERBOSE, "Received Entity State PDU", 0)
              \o log(LOG_LEVEL_VERBOSE, "type", 0)
              \o log(LOG_LEVEL_VERBOSE, "pos", 0)
              \o log(LOG_LEVEL_VERBOSE, "heading", 0)
              \o log(LOG_LEVEL_VERBOSE, "marking", 0)
              \o log(LOG_LEVEL_VERBOSE, "id", 0)
              \o log(LOG_LEVEL_VERBOSE, "damage", 0)
              \o log(LOG_LEVEL_VERBOSE, "Articulation Parameters (count)",
                     Len(espdu.articulationParameters))
              \o apLoop_listener(espdu.articulationParameters, 0),
     appearance |-> "DIS6_SurfacePlatformAppearance",
     thrown |-> "none"]

\* The lines a handler logs for a decoded Entity State PDU.
DecodedLogTexts ==
    {"Received Entity State PDU", "type", "pos", "heading", "marking", "id",
     "damage", "Articulation Parameters (count)", "ap #", "parameterType",
     "parameterTypeDesignator", "parameterValue",
     "parameterValue Entity ID decoded", "site", "application", "entity",
     "SurfacePlatformAppearance", "SubsurfacePlatformAppearance", "disMessage"}

\* ---------------------------------------------------------------- the relay
\* client.send(msg): the message is written to the connection when the client
\* is OPEN; on a client that is closing the data is dropped, the send fails.
send(client, msg) ==
    [client |-> client, data |-> msg, ok |-> readyState[client] = "OPEN"]

\* Variant: the fan-out stops after the first client.
broadcastToWSClients_firstOnly(msg) ==
    IF ws /\ Len(clients) > 0
    THEN [sends |-> <<send(clients[1], msg)>>,
          logs |-> log(LOG_LEVEL_VERBOSE, "Broadcasted message to", Len(clients))]
    ELSE [sends |-> <<>>, logs |-> <<>>]

\* Variant: no check that the server has clients.
broadcastToWSClients_unguarded(msg) ==
    [sends |-> [i \in 1..Len(clients) |-> send(clients[i], msg)],
     logs |-> log(LOG_LEVEL_VERBOSE, "Broadcasted message to", Len(clients))]

\* Variant: only the fixed part of the PDU, its first 144 bytes, is relayed.
broadcastToWSClients_fixedPartOnly(msg) ==
    IF ws /\ Len(clients) > 0
    THEN [sends |-> [i \in 1..Len(clients) |->
                       send(clients[i],
                            [msg EXCEPT !.length = MinESPDULength, !.aps = <<>>])],
          logs |-> log(LOG_LEVEL_VERBOSE, "Broadcasted message to", Len(clients))]
    ELSE [sends |-> <<>>, logs |-> <<>>]

\* broadcastToWSClients(msg). The same method, line for line, is in
\* src/unnamed/part_000, lines 540-549.
broadcastToWSClients(msg) ==
    IF ws /\ Len(clients) > 0
    THEN [sends |-> [i \in 1..Len(clients) |-> send(clients[i], msg)],
          logs |-> log(LOG_LEVEL_VERBOSE, "Broadcasted message to", Len(clients))]
    ELSE [sends |-> <<>>, logs |-> <<>>]

\* Variant: a connection that puts the newest message first.
Written_lifo(queue, c, sends) ==
    LET mine == SelectSeq(sends, LAMBDA s : s.client = c /\ s.ok)
    IN  [i \in 1..Len(mine) |-> mine[i].data.seq] \o queue

\* What the send calls of one handler run append to the connection of client c:
\* a connection is first in, first out. The queue holds the numbers of the
\* datagrams written to it.
Written(queue, c, sends) ==
    LET mine == SelectSeq(sends, LAMBDA s : s.client = c /\ s.ok)
    IN  queue \o [i \in 1..Len(mine) |-> mine[i].data.seq]

\* ---------------------------------------------------------- parseDISMessage
\* Variant: the length check one byte too lenient.
isLongEnough_offByOne(msg) == msg.length >= MinESPDULength - 1
\* msg.length >= 144, the minimum length of an Entity State PDU.
isLongEnough(msg) == msg.length >= MinESPDULength

\* Variant: any version from 6 on is accepted.
isSupportedVersion_orLater(espdu) == espdu.protocolVersion >= SupportedVersion
\* espdu.protocolVersion !== 6 is the unsupported case.
isSupportedVersion(espdu) == espdu.protocolVersion = SupportedVersion

\* Variant: the datagram is relayed before it is decoded.
parseDISMessage_relayFirst(msg) ==
    IF isLongEnough(msg)
    THEN LET cast == broadcastToWSClients(msg)
             made == createPdu(msg)
             disMessage == made.pdu
         IN  IF made.thrown # "none"
             THEN Effect("FactoryThrew", cast.logs, made.thrown, TRUE, FALSE, FALSE,
                         TRUE, cast.sends)
             ELSE IF disMessage.pduType = EntityStatePduType
             THEN IF ~isSupportedVersion(disMessage)
                  THEN Effect("UnsupportedVersion",
                              cast.logs
                              \o log(LOG_LEVEL_ERROR, "Unsupported DIS protocol version",
                                     disMessage.protocolVersion),
                              "none", TRUE, TRUE, FALSE, TRUE, cast.sends)
                  ELSE LET handled == IF program = "dis-ws-proxy"
                                      THEN handleDIS_ESPDU(disMessage)
                                      ELSE handleDIS_ESPDU_old(disMessage)
                       IN  [Effect(IF handled.thrown # "none" THEN "HandlerThrew"
                                   ELSE "Handled",
                                   cast.logs \o handled.logs, handled.thrown,
                                   TRUE, TRUE, TRUE, TRUE, cast.sends)
                            EXCEPT !.appearance = handled.appearance]
             ELSE Effect("NotEntityState", cast.logs, "none", TRUE, TRUE, FALSE,
                         TRUE, cast.sends)
    ELSE Effect("TooShort", <<>>, "none", FALSE, FALSE, FALSE, FALSE, <<>>)

\* The proxies (src/dis-ws-proxy.js, and src/unnamed/part_000 lines 584-613
\* with its own handleDIS_ESPDU).
parseDISMessage(msg) ==
    IF isLongEnough(msg)
    THEN LET made == createPdu(msg)
             disMessage == made.pdu
         IN  IF made.thrown # "none"
             THEN Effect("FactoryThrew", <<>>, made.thrown, TRUE, FALSE, FALSE, FALSE, <<>>)
             ELSE IF disMessage.pduType = EntityStatePduType
             THEN IF ~isSupportedVersion(disMessage)
                  THEN Effect("UnsupportedVersion",
                              log(LOG_LEVEL_ERROR, "Unsupported DIS protocol version",
                                  disMessage.protocolVersion),
                              "none", TRUE, TRUE, FALSE, FALSE, <<>>)
                  ELSE LET handled == IF program = "dis-ws-proxy"
                                      THEN handleDIS_ESPDU(disMessage)
                                      ELSE handleDIS_ESPDU_old(disMessage)
                       IN  IF handled.thrown # "none"
                           THEN Effect("HandlerThrew", handled.logs, handled.thrown,
                                       TRUE, TRUE, TRUE, FALSE, <<>>)
                           ELSE LET cast == broadcastToWSClients(msg)
                                IN  [Effect("Handled", handled.logs \o cast.logs,
                                            "none", TRUE, TRUE, TRUE, TRUE, cast.sends)
                                     EXCEPT !.appearance = handled.appearance]
             ELSE Effect("NotEntityState", <<>>, "none", TRUE, TRUE, FALSE, FALSE, <<>>)
    ELSE Effect("TooShort", <<>>, "none", FALSE, FALSE, FALSE, FALSE, <<>>)

\* dis-listener: the same checks, no relay.
parseDISMessage_listener(msg) ==
    IF isLongEnough(msg)
    THEN LET made == createPdu(msg)
             disMessage == made.pdu
         IN  IF made.thrown # "none"
             THEN Effect("FactoryThrew", <<>>, made.thrown, TRUE, FALSE, FALSE, FALSE, <<>>)
             ELSE IF disMessage.pduType = EntityStatePduType
             THEN IF ~isSupportedVersion(disMessage)
                  THEN Effect("UnsupportedVersion",
                              log(LOG_LEVEL_ERROR, "Unsupported DIS protocol version",
                                  disMessage.protocolVersion),
                              "none", TRUE, TRUE, FALSE, FALSE, <<>>)
                  ELSE LET handled == handleDIS_ESPDU_listener(disMessage)
                       IN  [Effect("Handled", handled.logs, "none",
                                   TRUE, TRUE, TRUE, FALSE, <<>>)
                            EXCEPT !.appearance = handled.appearance]
             ELSE Effect("NotEntityState", <<>>, "none", TRUE, TRUE, FALSE, FALSE, <<>>)
    ELSE Effect("TooShort", <<>>, "none", FALSE, FALSE, FALSE, FALSE, <<>>)

\* simple-listener: the body of its 'message' listener after the first line.
parseDISMessage_simple(msg) ==
    IF isLongEnough(msg)
    THEN LET made == createPdu(msg)
             disMessage == made.pdu
         IN  IF made.thrown # "none"
             THEN Effect("FactoryThrew", <<>>, made.thrown, TRUE, FALSE, FALSE, FALSE, <<>>)
             ELSE IF disMessage.pduType = EntityStatePduType
             THEN IF ~isSupportedVersion(disMessage)
                  THEN Effect("UnsupportedVersion",
                              console(LOG_LEVEL_INFO, "disMessage", 0)
                              \o console(LOG_LEVEL_ERROR, "Unsupported DIS protocol version",
                                         disMessage.protocolVersion),
                              "none", TRUE, TRUE, FALSE, FALSE, <<>>)
                  ELSE [Effect("Handled",
                              console(LOG_LEVEL_INFO, "disMessage", 0)
                              \o console(LOG_LEVEL_INFO, "pos", 0)
                              \o console(LOG_LEVEL_INFO, "marking", 0)
                              \o (IF /\ disMessage.entityType.entityKind = "PLATFORM"
                                     /\ disMessage.entityType.domain = "SURFACE"
                                  THEN console(LOG_LEVEL_INFO, "SurfacePlatformAppearance", 0)
                                  ELSE IF /\ disMessage.entityType.entityKind = "PLATFORM"
                                          /\ disMessage.entityType.domain = "SUBSURFACE"
                                  THEN console(LOG_LEVEL_INFO, "SubsurfacePlatformAppearance", 0)
                                  ELSE <<>>),
                              "none", TRUE, TRUE, TRUE, FALSE, <<>>)
                        EXCEPT !.appearance = platformAppearance(disMessage.entityType)]
             ELSE Effect("NotEntityState", console(LOG_LEVEL_INFO, "disMessage", 0),
                         "none", TRUE, TRUE, FALSE, FALSE, <<>>)
    ELSE Effect("TooShort", console(LOG_LEVEL_INFO, "Packet too short", 0),
                "none", FALSE, FALSE, FALSE, FALSE, <<>>)

\* ------------------------------------------------- socket.on('message', ...)
\* The first line of each script's listener, then its parse.
onMessage(msg) ==
    LET head == CASE program \in Proxies ->
                       log(LOG_LEVEL_VERBOSE, "Received packet", msg.length)
                  [] program = "dis-listener" ->
                       console(LOG_LEVEL_INFO, "", 0)
                       \o log(LOG_LEVEL_VERBOSE, "Received datagram", msg.length)
                  [] OTHER ->
                       console(LOG_LEVEL_INFO, "Received packet", msg.length)
        eff == CASE program \in Proxies -> parseDISMessage(msg)
                 [] program = "dis-listener" -> parseDISMessage_listener(msg)
                 [] OTHER -> parseDISMessage_simple(msg)
    IN  [eff EXCEPT !.logs = head \o @]

\* ------------------------------------------------------------------- state
Range(f) == { f[i] : i \in DOMAIN f }
Members == Range(clients)
OpenMembers == { c \in Members : readyState[c] = "OPEN" }

\* The record of the most recent step: the event, the datagram (of a
\* 'message') and what the handler did. No handler changes ws.clients or a
\* readyState, so in the state a 'message' leads to, Members and OpenMembers
\* are ws.clients as its handler found it.
Ran(event, msg, eff) == [event |-> event, msg |-> msg, eff |-> eff]

Logged(logs) == [NoEffect EXCEPT !.logs = logs]

\* The state a constructor call with this object leaves.
Constructed(object) ==
    /\ given = object
    /\ config = constructed(program, object)
    /\ bound = EmptyObject
    /\ membership = {}
    /\ pc = "constructed"
    /\ socket = "none"
    /\ ws = FALSE
    /\ clients = <<>>
    /\ readyState = [c \in Clients |-> "NONE"]
    /\ received = 0
    /\ delivered = [c \in Clients |-> <<>>]
    /\ last = Ran("constructor", NoDatagram, NoEffect)

\* The script: the command line is read, the object is constructed with it.
Init ==
    /\ program \in Programs
    /\ args \in ArgsOf(program)
    /\ Constructed(scriptConfig(program, args))

\* start(): listenForUDP() creates and binds the socket, startWSServer()
\* creates the WebSocket server (proxies only), then the start line is logged.
start ==
    /\ pc = "constructed"
    /\ pc' = "running"
    /\ socket' = "binding"
    /\ ws' = (program \in Proxies)
    /\ bound' =
         IF program = "simple-listener"
         THEN [udp |-> bind(62040, undefined)]
         ELSE IF program = "dis-listener"
         THEN [udp |-> bind(config.disPort, Get(config, "disLocalAddress"))]
         ELSE [udp |-> bind(config.disPort, Get(config, "disLocalAddress")),
               ws |-> [host |-> config.wsHost, port |-> config.wsPort]]
    /\ last' = Ran("start", NoDatagram,
                   Logged(IF program = "simple-listener" THEN <<>>
                          ELSE log(LOG_LEVEL_INFO, "started", 0)))
    /\ UNCHANGED <<program, args, given, config, membership, clients, readyState,
                   received, delivered>>

\* socket.addMembership(group) of dgram: the group is added to the socket's
\* memberships; a missing argument (ERR_MISSING_ARGS) or an address that is
\* not a multicast one (EINVAL from the system) throws.
addMembership(group) ==
    IF group = undefined
    THEN [thrown |-> "ERR_MISSING_ARGS", groups |-> membership]
    ELSE IF ~isInSubnet(group, "224.0.0.0/4")
    THEN [thrown |-> "EINVAL", groups |-> membership]
    ELSE [thrown |-> "none", groups |-> membership \cup {group}]

\* if (this.isMulticast) of the 'listening' handler; the older proxy and
\* simple-listener join without a test.
joinsGroup == IF program \in {"dis-ws-proxy", "dis-listener"} THEN isMulticast ELSE TRUE

\* socket.on('listening', ...): the line logged, then the multicast group
\* joined. An exception that leaves the listener ends the process.
onListening ==
    /\ pc = "running"
    /\ socket = "binding"
    /\ socket' = "listening"
    /\ LET listening == IF program = "simple-listener"
                        THEN console(LOG_LEVEL_INFO, "Listening for UDP", 0)
                        ELSE log(LOG_LEVEL_INFO, "Listening for UDP", 0)
           joining == IF program = "simple-listener" \/ program = "dis-ws-proxy.old"
                      THEN <<>>
                      ELSE log(LOG_LEVEL_INFO, "Joining multicast group", 0)
           join == addMembership(UDP_IP(program, args))
       IN  IF joinsGroup
           THEN /\ membership' = join.groups
                /\ pc' = IF join.thrown # "none" THEN "crashed" ELSE pc
                /\ last' = Ran("listening", NoDatagram,
                               [Logged(listening \o joining)
                                  EXCEPT !.thrown = join.thrown])
           ELSE /\ membership' = membership
                /\ pc' = pc
                /\ last' = Ran("listening", NoDatagram, Logged(listening))
    /\ UNCHANGED <<program, args, given, config, bound, ws, clients, readyState,
                   received, delivered>>

\* socket.on('message', ...): one datagram, handled to completion. An exception
\* that leaves the listener ends the process.
onSocketMessage(msg) ==
    /\ pc = "running"
    /\ socket = "listening"
    /\ received < MaxDatagrams
    /\ LET eff == onMessage(msg)
       IN  /\ last' = Ran("message", msg, eff)
           /\ pc' = IF eff.thrown # "none" THEN "crashed" ELSE pc
           /\ delivered' = [c \in Clients |-> Written(delivered[c], c, eff.sends)]
    /\ received' = received + 1
    /\ UNCHANGED <<program, args, given, config, bound, membership, socket, ws, clients, readyState>>

\* Variant: the error is logged, the socket is left as it is.
onSocketError_notClosed ==
    /\ pc = "running"
    /\ socket \in {"binding", "listening"}
    /\ socket' = socket
    /\ last' = Ran("error", NoDatagram,
                   Logged(IF program = "simple-listener"
                          THEN console(LOG_LEVEL_ERROR, "Socket error", 0)
                          ELSE log(LOG_LEVEL_ERROR, "Socket error", 0)))
    /\ UNCHANGED <<program, args, given, config, bound, membership, pc, ws, clients,
                   readyState, received, delivered>>

\* socket.on('error', ...): the error is logged and the socket closed.
onSocketError ==
    /\ pc = "running"
    /\ socket \in {"binding", "listening"}
    /\ socket' = "closed"
    /\ last' = Ran("error", NoDatagram,
                   Logged(IF program = "simple-listener"
                          THEN console(LOG_LEVEL_ERROR, "Socket error", 0)
                          ELSE log(LOG_LEVEL_ERROR, "Socket error", 0)))
    /\ UNCHANGED <<program, args, given, config, bound, membership, pc, ws, clients, readyState, received, delivered>>

\* this.ws.on('connection', ...): the server has added the client to ws.clients.
onConnection(c) ==
    /\ pc = "running"
    /\ ws
    /\ readyState[c] = "NONE"
    /\ readyState' = [readyState EXCEPT ![c] = "OPEN"]
    /\ clients' = Append(clients, c)
    /\ last' = Ran("connection", NoDatagram,
                   Logged(log(LOG_LEVEL_INFO, "Client connected", c)))
    /\ UNCHANGED <<program, args, given, config, bound, membership, pc, socket, ws, received, delivered>>

\* A client starts to disconnect (it closes, or its connection breaks): it is
\* CLOSING and stays in ws.clients until its 'close' event.
clientClosing(c) ==
    /\ pc = "running"
    /\ readyState[c] = "OPEN"
    /\ readyState' = [readyState EXCEPT ![c] = "CLOSING"]
    /\ last' = Ran("closing", NoDatagram, NoEffect)
    /\ UNCHANGED <<program, args, given, config, bound, membership, pc, socket, ws, clients, received, delivered>>

\* The client's 'close' event: the server deletes it from ws.clients.
clientClose(c) ==
    /\ pc = "running"
    /\ readyState[c] = "CLOSING"
    /\ readyState' = [readyState EXCEPT ![c] = "CLOSED"]
    /\ clients' = SelectSeq(clients, LAMBDA x : x # c)
    /\ last' = Ran("close", NoDatagram, NoEffect)
    /\ UNCHANGED <<program, args, given, config, bound, membership, pc, socket, ws, received, delivered>>

Next ==
    \/ start
    \/ onListening
    \/ \E msg \in Datagrams(received + 1) : onSocketMessage(msg)
    \/ onSocketError
    \/ \E c \in Clients : onConnection(c)
    \/ \E c \in Clients : clientClosing(c)
    \/ \E c \in Clients : clientClose(c)

Spec == Init /\ [][Next]_vars

\* ------------------------------------- the articulation loop on its own
\* The for-of loop of handleDIS_ESPDU (src/dis-ws-proxy.js lines 239-259,
\* src/unnamed/part_000 lines 208-230) applied to the articulation parameters
\* of a decoded PDU: any array of up to MaxLoopAP records.
APLoopSeqs == UNION { [1..n -> APKinds] : n \in 0..MaxLoopAP }
APReporters == {"dis-ws-proxy", "dis-listener"}

InitAPLoop == Init /\ program \in APReporters

reportArticulationParameters(aps) ==
    /\ pc = "constructed"
    /\ last' = Ran("articulation",
                   Datagram(1, MinESPDULength + ArticulationRecordLength * Len(aps),
                            EntityStatePduType, SupportedVersion, Len(aps),
                            DefaultEntityType, aps),
                   Logged(IF program = "dis-ws-proxy"
                          THEN apLoop(aps, 1, 0)
                          ELSE apLoop_listener(aps, 0)))
    /\ UNCHANGED <<program, args, given, config, bound, membership, pc, socket, ws, clients, readyState,
                   received, delivered>>

NextAPLoop == \E aps \in APLoopSeqs : reportArticulationParameters(aps)

SpecAPLoop == InitAPLoop /\ [][NextAPLoop]_vars

\* --------------------------------------------- the constructor on its own
\* new DISWSProxy(config), then start(), for any config object: each field of
\* the typedef (and logLevel) supplied or left out.
SuppliedValues ==
    [disAddress |-> "192.168.1.255", disLocalAddress |-> "192.168.1.10",
     disPort |-> 3000, wsHost |-> "0.0.0.0", wsPort |-> 9000, wsPath |-> "/dis",
     logLevel |-> LOG_LEVEL_VERBOSE]
SuppliedConfigs ==
    { [field \in fields |-> SuppliedValues[field]] :
        fields \in SUBSET DOMAIN SuppliedValues }

InitConfig ==
    /\ program = "dis-ws-proxy"
    /\ args = <<>>
    /\ \E object \in SuppliedConfigs : Constructed(object)

NextConfig == start

SpecConfig == InitConfig /\ [][NextConfig]_vars

\* ================================================================== claims
IsMessage == last.event = "message"
Texts(logs) == { logs[i].text : i \in DOMAIN logs }
SendsTo(c) == SelectSeq(last.eff.sends, LAMBDA s : s.client = c)
ErrorLogs(logs) == SelectSeq(logs, LAMBDA l : l.level = LOG_LEVEL_ERROR)
NotRelayed ==
    /\ ~last.eff.published
    /\ last.eff.sends = <<>>
    /\ \A c \in Clients : last.msg.seq \notin Range(delivered[c])

\* C1: handling a datagram never lets an exception escape the socket 'message'
\* handler; the process stays up and goes on listening.
C1_NoExceptionEscapes ==
    IsMessage => (last.eff.thrown = "none" /\ pc = "running")

\* C2: in the proxy, a datagram decoded as a version-6 Entity State PDU of at
\* least 144 bytes is sent once to every client of the WebSocket server: N
\* clients, N sends of that datagram.
C2_DecodedESPDUPushedToAll ==
    ( /\ IsMessage
      /\ program \in Proxies
      /\ last.msg.length >= MinESPDULength
      /\ last.eff.decoded
      /\ last.msg.pduType = EntityStatePduType
      /\ last.msg.protocolVersion = SupportedVersion )
    => /\ Len(last.eff.sends) = Cardinality(Members)
       /\ \A c \in Members : Len(SendsTo(c)) = 1 /\ SendsTo(c)[1].data = last.msg

\* C3: a published datagram is written once to every client that is still
\* connected, nothing is sent to a client that had disconnected (left
\* ws.clients) or never connected before the publish, and nothing is written
\* to a client that is closing.
C3_PublishReachesExactlyConnected ==
    (IsMessage /\ last.eff.published)
    => /\ \A c \in OpenMembers :
             /\ Len(SendsTo(c)) = 1
             /\ SendsTo(c)[1].ok
             /\ delivered[c] # <<>>
             /\ delivered[c][Len(delivered[c])] = last.msg.seq
       /\ \A c \in Clients \ Members :
             /\ SendsTo(c) = <<>>
             /\ last.msg.seq \notin Range(delivered[c])
       /\ \A c \in Members \ OpenMembers :
             last.msg.seq \notin Range(delivered[c])

\* C3 witness: a publish with one client that has disconnected and another
\* that is still connected.
C3_Witness ==
    /\ IsMessage
    /\ last.eff.published
    /\ \E c \in Clients : readyState[c] = "CLOSED"
    /\ OpenMembers # {}

\* C4: when the send to one client fails during a fan-out, that client is
\* removed from the set of clients, every other client is still sent the
\* datagram, and no error reaches the datagram handler.
C4_FailedSubscriberRemoved ==
    (IsMessage /\ last.eff.published)
    => /\ last.eff.thrown = "none"
       /\ \A c \in OpenMembers : Len(SendsTo(c)) = 1 /\ SendsTo(c)[1].ok
       /\ \A i \in DOMAIN last.eff.sends :
             ~last.eff.sends[i].ok => last.eff.sends[i].client \notin Members

\* C5: a publish with no client (or with no WebSocket server yet) does
\* nothing: no send, no broadcast log line, no error.
C5_PublishWithoutSubscribersIsNoOp ==
    (IsMessage /\ last.eff.published /\ (~ws \/ Members = {}))
    => /\ last.eff.sends = <<>>
       /\ "Broadcasted message to" \notin Texts(last.eff.logs)
       /\ last.eff.thrown = "none"
       /\ pc = "running"
       /\ \A c \in Clients : last.msg.seq \notin Range(delivered[c])

\* C5 witness: a verbose proxy publishes with no client connected.
C5_Witness ==
    /\ IsMessage
    /\ last.eff.published
    /\ Members = {}
    /\ logLevel = LOG_LEVEL_VERBOSE

\* C6: every client is sent the datagrams in the order they were received: no
\* client is sent a later datagram before an earlier one.
C6_DeliveredInReceiveOrder ==
    \A c \in Clients :
        \A i, j \in DOMAIN delivered[c] :
            i < j => delivered[c][i] < delivered[c][j]

\* C6 witness: a client that has been sent two datagrams.
C6_Witness == \E c \in Clients : Len(delivered[c]) >= 2

\* C7: a datagram shorter than 144 bytes is rejected as too short: no
\* exception, the PDU factory is not called, nothing is converted or relayed.
C7_TooShortRejected ==
    (IsMessage /\ last.msg.length < MinESPDULength)
    => /\ last.eff.outcome = "TooShort"
       /\ last.eff.thrown = "none"
       /\ pc = "running"
       /\ ~last.eff.factoryCalled
       /\ ~last.eff.decoded
       /\ ~last.eff.converted
       /\ NotRelayed

\* C7 witness: a datagram of 143 bytes has been handled while a client was
\* connected.
C7_Witness ==
    /\ IsMessage
    /\ last.msg.length = MinESPDULength - 1
    /\ OpenMembers # {}

UnsupportedVersionReported ==
    /\ last.eff.outcome = "UnsupportedVersion"
    /\ Len(ErrorLogs(last.eff.logs)) = 1
    /\ ErrorLogs(last.eff.logs)[1].text = "Unsupported DIS protocol version"
    /\ ErrorLogs(last.eff.logs)[1].arg = last.msg.protocolVersion

\* C8: a datagram of at least 144 bytes whose version is not 6, whatever its
\* PDU type, ends as unsupported version with the actual version reported, and
\* is neither converted nor relayed.
C8_UnsupportedVersionAnyType ==
    (IsMessage /\ last.msg.length >= MinESPDULength
               /\ last.msg.protocolVersion # SupportedVersion)
    => /\ UnsupportedVersionReported
       /\ ~last.eff.converted
       /\ NotRelayed

\* C9: a datagram of at least 144 bytes whose PDU type is not Entity State,
\* known to the PDU factory or not, is ignored silently: no error logged, no
\* exception, nothing converted, nothing relayed.
C9_NonEntityStateIgnoredSilently ==
    (IsMessage /\ last.msg.length >= MinESPDULength
               /\ last.msg.pduType # EntityStatePduType)
    => /\ last.eff.thrown = "none"
       /\ pc = "running"
       /\ ErrorLogs(last.eff.logs) = <<>>
       /\ ~last.eff.converted
       /\ NotRelayed

\* C10: a datagram whose buffer ends before its declared articulation records
\* ends as a truncated PDU (the read past the end of the buffer) and is
\* discarded whole: no PDU is decoded, none of its fields is logged, nothing
\* is relayed.
C10_TruncatedDiscardedWhole ==
    (IsMessage /\ last.msg.length >= MinESPDULength /\ Truncated(last.msg))
    => /\ last.eff.outcome = "FactoryThrew"
       /\ last.eff.thrown = "RangeError"
       /\ ~last.eff.decoded
       /\ ~last.eff.converted
       /\ Texts(last.eff.logs) \cap DecodedLogTexts = {}
       /\ NotRelayed

\* C10 witness: a truncated version-6 Entity State PDU has been handled by a
\* proxy while a client was connected.
C10_Witness ==
    /\ IsMessage
    /\ program \in Proxies
    /\ last.msg.length >= MinESPDULength
    /\ last.msg.protocolVersion = SupportedVersion
    /\ Truncated(last.msg)
    /\ OpenMembers # {}

\* What a handler's log shows of the articulation parameters: one entry per
\* "ap #" line, with the index printed and whether a nested Entity ID followed.
RECURSIVE Reported(_)
Reported(logs) ==
    IF logs = <<>> THEN <<>>
    ELSE LET before == Reported(SubSeq(logs, 1, Len(logs) - 1))
             line == logs[Len(logs)]
         IN  IF line.text = "ap #"
             THEN Append(before, [index |-> line.arg, parameterType |-> -1,
                                  parameterTypeDesignator |-> -1, nested |-> FALSE])
             ELSE IF before = <<>> THEN before
             ELSE IF line.text = "parameterType"
             THEN [before EXCEPT ![Len(before)].parameterType = line.arg]
             ELSE IF line.text = "parameterTypeDesignator"
             THEN [before EXCEPT ![Len(before)].parameterTypeDesignator = line.arg]
             ELSE IF line.text = "parameterValue Entity ID decoded"
             THEN [before EXCEPT ![Len(before)].nested = TRUE]
             ELSE before

\* The loop has run on the articulation parameters of a PDU, with verbose
\* logging.
APsReported == last.event = "articulation" /\ logLevel = LOG_LEVEL_VERBOSE

\* C11: every articulation parameter of a decoded PDU is reported, and a nested
\* Entity ID is decoded from its value if and only if its type is 1 and its
\* designator is 0; any other parameter shows its raw value only.
C11_NestedEntityIDIffType1Designator0 ==
    APsReported =>
        LET aps == last.msg.aps
            shown == Reported(last.eff.logs)
        IN  /\ Len(shown) = Len(aps)
            /\ \A k \in DOMAIN shown :
                  /\ shown[k].parameterType = aps[k].parameterType
                  /\ shown[k].parameterTypeDesignator = aps[k].parameterTypeDesignator
                  /\ shown[k].nested <=>
                        /\ aps[k].parameterType = EntityIDListType
                        /\ aps[k].parameterTypeDesignator = ArticulatedPartDesignator

\* The layout the claim names for each domain, Unknown for any other.
LayoutOfDomain(domain) ==
    CASE domain = "SURFACE" -> "DIS6_SurfacePlatformAppearance"
      [] domain = "SUBSURFACE" -> "DIS6_SubsurfacePlatformAppearance"
      [] domain = "LAND" -> "DIS6_LandPlatformAppearance"
      [] domain = "AIR" -> "DIS6_AirPlatformAppearance"
      [] OTHER -> "Unknown"

\* C13: when the handler of a decoded PDU has run to its end, the layout its
\* appearance word was read with is the one of the PDU's entity-type domain:
\* surface, subsurface, land or air, and Unknown for any other domain.
C13_AppearanceLayoutByDomain ==
    (IsMessage /\ last.eff.outcome = "Handled")
    => last.eff.appearance = LayoutOfDomain(last.msg.entityType.domain)

\* C14: a line of verbose level (0) is logged only when -v was given on the
\* command line, and the INFO line of start() is logged with or without it.
C14_VerboseOnlyWithFlag ==
    /\ \A i \in DOMAIN last.eff.logs :
          last.eff.logs[i].level = LOG_LEVEL_VERBOSE => Includes(args, "-v")
    /\ (last.event = "start" /\ program # "simple-listener")
          => "started" \in Texts(last.eff.logs)

\* What the DISWSProxyConfig typedef documents: the fields and their defaults.
DocumentedDefaults ==
    [disAddress |-> "239.1.2.3", disLocalAddress |-> "0.0.0.0", disPort |-> 62040,
     wsHost |-> "localhost", wsPort |-> 8080, wsPath |-> "/"]
DocumentedFields == DOMAIN DocumentedDefaults
ExpectedConfig ==
    [field \in DocumentedFields |-> Coalesce(given, field, DocumentedDefaults[field])]

\* C15: after the constructor's setConfig(config), this.config holds for every
\* documented field the value supplied or, when none was supplied, the
\* documented default; and start() binds the UDP socket and the WebSocket
\* server with those values.
C15_ConfigHoldsSuppliedOrDefault ==
    program = "dis-ws-proxy" =>
        /\ \A field \in DocumentedFields : Get(config, field) = ExpectedConfig[field]
        /\ "udp" \in DOMAIN bound =>
              /\ bound.udp = [port |-> ExpectedConfig.disPort,
                              address |-> ExpectedConfig.disLocalAddress]
              /\ bound.ws = [host |-> ExpectedConfig.wsHost,
                             port |-> ExpectedConfig.wsPort]

\* C17: handleDIS_ESPDU (the conversions and decoding) and the relay are
\* reached only for a datagram of at least 144 bytes that is an Entity State
\* PDU of version 6: a datagram failing one of the three checks is neither
\* converted nor relayed.
C17_EnrichmentAndRelayOnlyForValidESPDU ==
    ( /\ IsMessage
      /\ \/ last.eff.converted
         \/ last.eff.appearance # "none"
         \/ last.eff.published
         \/ last.eff.sends # <<>>
         \/ \E c \in Clients : last.msg.seq \in Range(delivered[c]) )
    => /\ last.msg.length >= MinESPDULength
       /\ last.msg.pduType = EntityStatePduType
       /\ last.msg.protocolVersion = SupportedVersion

\* C17 witness: a datagram has been converted and relayed to a client, after
\* an earlier datagram that was not.
C17_Witness ==
    /\ IsMessage
    /\ last.eff.converted
    /\ last.eff.published
    /\ received = 2
    /\ \E c \in Clients : delivered[c] = <<last.msg.seq>>

\* C18: what the proxy sends for a relayed datagram is the datagram as it was
\* received, unchanged by the decoding, and each client of the server is sent
\* exactly one message for it.
C18_RelayedVerbatimOncePerSubscriber ==
    (IsMessage /\ last.eff.published)
    => /\ \A i \in DOMAIN last.eff.sends : last.eff.sends[i].data = last.msg
       /\ Len(last.eff.sends) = Cardinality(Members)
       /\ \A c \in Members : Len(SendsTo(c)) = 1
       /\ \A c \in Clients :
             Len(SelectSeq(delivered[c], LAMBDA n : n = last.msg.seq)) <= 1

\* C18 witness: a PDU with articulation records has been relayed while every
\* client was connected.
C18_Witness ==
    /\ IsMessage
    /\ last.eff.published
    /\ last.msg.aps # <<>>
    /\ OpenMembers = Clients

C20_ClosedAfterSocketError ==
    [][ /\ last'.event = "error"
            => /\ socket' = "closed"
               /\ ws' = ws
               /\ clients' = clients
               /\ readyState' = readyState
               /\ delivered' = delivered
        /\ socket = "closed"
            => /\ socket' = "closed"
               /\ last'.event \notin {"message", "listening", "error"}
               /\ received' = received
               /\ delivered' = delivered ]_vars

\* C20 witness: the socket of a proxy has been closed by an 'error' after a
\* datagram had been relayed, and a client has connected since.
C20_Witness ==
    /\ socket = "closed"
    /\ received > 0
    /\ \E c \in Clients : delivered[c] # <<>>
    /\ last.event = "connection"

\* The multicast range 224.0.0.0/4: the addresses 224.x.x.x to 239.x.x.x.
InMulticastRange(address) == Octets(address)[1] \in 224..239

\* C21: when the UDP socket starts listening, it joins a multicast group if
\* and only if the configured disAddress lies in 224.0.0.0/4, and the group it
\* joins is exactly the configured disAddress; for a unicast or broadcast
\* address no group membership is requested.
C21_JoinsConfiguredGroupIffMulticast ==
    ("disAddress" \in DOMAIN config /\ last.event = "listening") =>
        membership = IF InMulticastRange(config.disAddress)
                     THEN {config.disAddress}
                     ELSE {}
====
